---- MODULE Spec2Model ----
(***************************************************************************)
(* Checkpointed batch ingestion engine of fdsouvenir/senso.                *)
(*                                                                         *)
(* startFullIngestion / processPdfBatch / deleteContinuationTriggers       *)
(* (src/Code.js) and BigQueryLoader.loadData / insertWithRetry,            *)
(* PmixParser.parse (src/GeminiService.js).                                *)
(*                                                                         *)
(* One invocation of processPdfBatch is a small step machine:              *)
(*   idle   - no invocation is active                                      *)
(*   loop   - at the top of `while (files.hasNext())`                      *)
(*   insert - inside the for loop of insertWithRetry, before an insertAll  *)
(*   loaded - insertWithRetry has returned or thrown into loadData         *)
(* Invocations never overlap in Spec: an entry point needs pc = "idle".    *)
(***************************************************************************)
EXTENDS Integers, Sequences, FiniteSets, TLC

\* ------------------------------------------------------------------ bounds
NFiles == 3
MaxAdvance == 5
MaxElapsed == 5
NMessages == 2
MaxDay == 11
MaxAttemptsArg == 2
MaxWindowArg == 2
MaxTriggers == 2
MaxSeconds == 4

\* ------------------------------------------------------- program constants
EXECUTION_TIME_LIMIT_MINUTES == 6
TIME_BUFFER_MINUTES == 2
maxRetries == 4
InitialDelay == 1000
SEARCH_WINDOW_DAYS == 7
LOG_RETENTION_DAYS == 10

\* ------------------------------------------------------------ value spaces
FileIds == 1 .. NFiles

NULL == "null"
NoToken == -1
NoCount == -1
NoFile == 0

HANDLER == "processPdfBatch"
Handlers ==
  {"processPdfBatch", "harvestNewPdfsFromGmail", "cleanOldMessageIds",
   "runDailyReportTrigger", "runWeeklyReportTrigger"}

\* File names, as the prefix the code tests and the rest of the name.
FileNames == {<<"pmix-", "report.pdf">>, <<"summary-", "report.pdf">>}

\* Error messages, as the phrases they are made of.
SERVER_ERROR == "We're sorry, a server error occurred"
TIMED_OUT == "timed out"
TransientA == <<SERVER_ERROR, ". Please wait a bit and try again.">>
TransientB == <<"Exception: ", SERVER_ERROR, " (backendError)">>
FatalMsg == <<"Invalid table data">>
TimeoutMsg == <<"Request ", TIMED_OUT>>
RateLimitMsg == <<"Gemini API rate limit exceeded. Please wait a moment before trying again.">>
NotFoundMsg == <<"No item with the given ID could be found">>

\* e.message.includes(phrase)
Includes(message, phrase) == \E k \in DOMAIN message : message[k] = phrase

\* name.startsWith(prefix)
StartsWith(name, prefix) == Len(name) > 0 /\ name[1] = prefix

IsTransient(message) == Includes(message, SERVER_ERROR)

\* What the services called by the engine can do.
DriveErrors == {TransientA, NotFoundMsg}
InsertAllErrors == {TransientA, TransientB, FatalMsg}
ParseErrors == {TimeoutMsg, RateLimitMsg}

\* The property store is unreachable or over quota.
QuotaMsg == <<"Service invoked too many times for one day: properties">>
StoreErrors == {TransientA, QuotaMsg}

\* What a step observed: nothing, an error raised by Drive ("setup", "loop") or
\* by the property store ("store"), or the outcome of PmixParser.parse.
NoEvent == [kind |-> "none", message |-> <<>>]
Event(kind, message) == [kind |-> kind, message |-> message]

NoError == [message |-> <<>>, cause |-> <<>>]
Error(message) == [message |-> message, cause |-> <<>>]

\* Gmail messages of the report sender, numbered in order of arrival.
Messages == 1 .. NMessages
Days == 0 .. MaxDay
NotYet == -1
NoStamp == -1

\* message.getId(): the source does not fix the length of a message id. Gmail
\* ids are 16 hexadecimal characters, while line 81 of the harvester takes a
\* key for a message id when it is longer than 20.
MessageIdLengths == {16, 24}

\* The log of the harvester holds no message id.
EmptyLog == [m \in Messages |-> NoStamp]

NoMail == [m \in Messages |-> [received |-> NotYet, thread |-> m, idLength |-> 16]]

\* The cache holds no entry for the key.
NoCache == [value |-> <<>>, expires |-> 0]

Seconds == 0 .. MaxSeconds

\* The executions of processPdfBatch the runtime may hold at once: the one a
\* user started from the menu and the one the scheduler started.
Invocations == {"manual", "scheduled"}

IdleInvocation ==
  [pc |-> "idle", files |-> 0, file |-> NoFile, count |-> 0, message |-> <<>>]

\* ------------------------------------------------------------------- state
VARIABLES
  userProperties,  \* PropertiesService.getUserProperties(): job state + ledger
  triggers,        \* ScriptApp project triggers still to fire, per handler
  folder,          \* the Drive folder: the names of its PDF files, in listing order
  pc,              \* position of the active invocation
  files,           \* the file iterator: number of files already pulled
  elapsed,         \* minutes since startTime of the active invocation
  processedCount,  \* local variable processedCount of processPdfBatch
  file,            \* the file being processed
  tableId,         \* insertWithRetry: table being written
  i,               \* insertWithRetry: loop index
  delay,           \* insertWithRetry: current delay, ms
  e,               \* insertWithRetry: last error caught from insertAll
  thrown,          \* error insertWithRetry threw to loadData
  log,             \* insertWithRetry: 0 for an insertAll call, d for sleep(d)
  parsed,          \* file handed to PmixParser.parse by the last step
  classified,      \* files that have ever held a ledger entry
  lastToken,       \* token returned at the latest budget stop of this run
  event,           \* what the services called by the last step answered
  mailbox,         \* Gmail: the report messages, their arrival day and thread
  processedLog,    \* user properties keyed by Gmail message id: log timestamps
  today,           \* the clock of the harvester and of the cleanup, in days
  saved,           \* attachments of each message created in the Drive folder
  cache,           \* CacheService entry 'rate_limit_' + key
  currentTime,     \* the clock of checkRateLimit, in seconds
  grants,          \* calls of checkRateLimit that returned true, per second
  allowed,         \* what the last call of checkRateLimit returned
  limit,           \* the arguments maxAttempts and windowSeconds of the calls
  inv              \* the invocations of processPdfBatch that may overlap

vars == <<userProperties, triggers, folder, pc, files, elapsed, processedCount,
          file, tableId, i, delay, e, thrown, log, parsed, classified, lastToken,
          event, mailbox, processedLog, today, saved, cache, currentTime,
          grants, allowed, limit, inv>>

harvestVars == <<mailbox, today, saved>>

rateVars == <<cache, currentTime, grants, allowed, limit>>

\* What the engine of a single invocation never touches.
elsewhere == <<harvestVars, rateVars, inv>>

\* What only startFullIngestion and processPdfBatch touch, the property store
\* apart.
engineLocals == <<pc, files, elapsed, processedCount, file, tableId, i, delay,
                  e, thrown, log, parsed, classified, lastToken>>

engineVars == <<triggers, folder, engineLocals>>

\* ------------------------------------------------------- the property store
\* deleteAllProperties(): no key is left.
EmptyProperties ==
  [ingestionStatus |-> <<>>,
   processedCount |-> NoCount,
   lastRunTimestamp |-> FALSE,
   continuationToken |-> NoToken,
   ledger |-> [f \in FileIds |-> NULL]]

\* JavaScript truthiness of a stored ledger value.
IsProcessedOnlyTrue(value) == value = "true"

IsProcessed(value) == value # NULL

\* parseInt(getProperty('processedCount') || '0')
ParseCount(stored) == IF stored = NoCount THEN 0 ELSE stored

SetStatus(up, head, detail) == [up EXCEPT !.ingestionStatus = <<head, detail>>]

SetLedger(up, f, value) == [up EXCEPT !.ledger[f] = value]

\* ---------------------------------------------------------------- triggers
deleteContinuationTriggersNone(trig) == trig

\* Every trigger of the project is deleted, whatever its handler.
deleteEveryTrigger(trig) == [h \in Handlers |-> 0]

deleteContinuationTriggers(trig) == [trig EXCEPT ![HANDLER] = 0]

newTrigger(trig, handler) == [trig EXCEPT ![handler] = @ + 1]

\* --------------------------------------------------------- budget and source
Threshold == EXECUTION_TIME_LIMIT_MINUTES - TIME_BUFFER_MINUTES

BudgetExpired(timeElapsed) == timeElapsed > Threshold

hasNext(position) == position < Len(folder)

Advance(t, d) == IF t + d > MaxElapsed THEN MaxElapsed ELSE t + d

\* runInitialSetup (lines 109-121) and TriggerManager have installed the
\* recurring triggers; no continuation is registered.
InstalledTriggers == [h \in Handlers |-> IF h = HANDLER THEN 0 ELSE 1]

\* The harvester has not run and no report has arrived.
HarvesterIdle ==
  /\ mailbox = NoMail
  /\ processedLog = EmptyLog
  /\ today = 0
  /\ saved = [m \in Messages |-> 0]

\* checkRateLimit has not been called.
LimiterIdle ==
  /\ cache = NoCache
  /\ currentTime = 0
  /\ grants = [t \in Seconds |-> 0]
  /\ allowed = NULL
  /\ limit = [maxAttempts |-> 1, windowSeconds |-> 1]

\* No invocation of processPdfBatch has run.
\* No invocation has run yet.
NothingRun ==
  /\ userProperties = EmptyProperties
  /\ pc = "idle"
  /\ files = 0
  /\ elapsed = 0
  /\ processedCount = 0
  /\ file = NoFile
  /\ tableId = NULL
  /\ i = 0
  /\ delay = 0
  /\ e = NoError
  /\ thrown = NoError
  /\ log = <<>>
  /\ parsed = NoFile
  /\ classified = {}
  /\ lastToken = NoToken
  /\ event = NoEvent
  /\ inv = [k \in Invocations |-> IdleInvocation]

EngineIdle ==
  /\ triggers = InstalledTriggers
  /\ NothingRun

Init ==
  /\ folder \in UNION {[1 .. n -> FileNames] : n \in 0 .. NFiles}
  /\ EngineIdle
  /\ HarvesterIdle
  /\ LimiterIdle


\* ----------------------------------------------------------- frame helpers
\* The locals of insertWithRetry do not exist outside a call of it.
NoInsert ==
  /\ tableId' = NULL
  /\ i' = 0
  /\ delay' = 0
  /\ e' = NoError
  /\ thrown' = NoError
  /\ log' = <<>>

\* processPdfBatch returns: its locals are gone.
Return ==
  /\ pc' = "idle"
  /\ files' = 0
  /\ elapsed' = 0
  /\ processedCount' = 0
  /\ file' = NoFile
  /\ NoInsert

\* ------------------------------------------------- processPdfBatch: catch
CatchProperties(up, message) == SetStatus(up, "Failed: ", message)

CatchTriggersAlways(trig, message) ==
  newTrigger(deleteContinuationTriggers(trig), HANDLER)

CatchTriggers(trig, message) ==
  IF IsTransient(message)
    THEN newTrigger(deleteContinuationTriggers(trig), HANDLER)
    ELSE deleteContinuationTriggers(trig)

Catch(up, trig, message) ==
  /\ userProperties' = CatchProperties(up, message)
  /\ triggers' = CatchTriggers(trig, message)
  /\ Return

\* ------------------------------------------- processPdfBatch: entry, setup
\* The iterator the setup opens: continueFileIterator(token) or a new listing.
OpenIterator(token) == IF token # NoToken THEN token ELSE 0

\* Lines 163-164.
EntryProperties(up) ==
  [SetStatus(up, "Running...", <<>>) EXCEPT !.lastRunTimestamp = TRUE]

processPdfBatch(up, trig) ==
  LET running == EntryProperties(up)
      count == ParseCount(running.processedCount)
      continuationToken == running.continuationToken
      start == OpenIterator(continuationToken)
  IN \E m \in {<<>>} \cup DriveErrors, d \in 0 .. MaxAdvance :
       /\ parsed' = NoFile
       /\ UNCHANGED <<folder, classified>>
       /\ event' = IF m # <<>> THEN Event("setup", m) ELSE NoEvent
       /\ IF m # <<>>
            THEN Catch(running, trig, m)
            ELSE IF ~hasNext(start) /\ continuationToken = NoToken
              THEN /\ userProperties' =
                        SetStatus(running, "Completed", <<" (No files found)">>)
                   /\ triggers' = trig
                   /\ Return
              ELSE /\ userProperties' = running
                   /\ triggers' = trig
                   /\ pc' = "loop"
                   /\ files' = start
                   /\ elapsed' = Advance(0, d)
                   /\ processedCount' = count
                   /\ file' = NoFile
                   /\ NoInsert

startFullIngestionPropertiesKept(up) ==
  [up EXCEPT !.ingestionStatus = <<"Starting...", <<>>>>,
             !.processedCount = 0,
             !.lastRunTimestamp = TRUE]

\* The ledger entries survive the fresh start.
startFullIngestionPropertiesKeepLedger(up) ==
  [EmptyProperties EXCEPT !.ingestionStatus = <<"Starting...", <<>>>>,
                          !.processedCount = 0,
                          !.lastRunTimestamp = TRUE,
                          !.ledger = up.ledger]

\* Lines 143-148: deleteAllProperties, then the three writes.
startFullIngestionProperties(up) ==
  [EmptyProperties EXCEPT !.ingestionStatus = <<"Starting...", <<>>>>,
                          !.processedCount = 0,
                          !.lastRunTimestamp = TRUE]

\* Lines 163-165 are outside the try: when the property store fails there the
\* exception leaves processPdfBatch. Either the first write failed and nothing
\* has been written, or the read of line 165 failed after the two writes.
EntryStoreFails(up, trig) ==
  /\ \E m \in StoreErrors : event' = Event("store", m)
  /\ \E written \in BOOLEAN :
       userProperties' = IF written THEN EntryProperties(up) ELSE up
  /\ triggers' = trig
  /\ Return
  /\ parsed' = NoFile
  /\ UNCHANGED <<folder, classified>>

startFullIngestion ==
  /\ processedLog' = EmptyLog
  /\ UNCHANGED elsewhere
  /\ pc = "idle"
  /\ lastToken' = NoToken
  /\ \/ processPdfBatch(startFullIngestionProperties(userProperties),
                        deleteContinuationTriggers(triggers))
     \/ EntryStoreFails(startFullIngestionProperties(userProperties),
                        deleteContinuationTriggers(triggers))

\* The scheduler fires the pending one-shot trigger.
TriggerFires ==
  /\ UNCHANGED <<processedLog, elsewhere>>
  /\ pc = "idle"
  /\ triggers[HANDLER] > 0
  /\ UNCHANGED lastToken
  /\ \/ processPdfBatch(userProperties, [triggers EXCEPT ![HANDLER] = @ - 1])
     \/ EntryStoreFails(userProperties, [triggers EXCEPT ![HANDLER] = @ - 1])


\* ------------------------------------------------ processPdfBatch: the loop
\* The next file is pulled whatever the clock says.
CanPullUnpolled == pc = "loop" /\ hasNext(files)

\* files.next() is reached: the next file is pulled.
CanPull == pc = "loop" /\ hasNext(files) /\ ~BudgetExpired(elapsed)

NextFile == files + 1

\* files.hasNext() / files.next() raises.
LoopError ==
  /\ UNCHANGED <<processedLog, elsewhere>>
  /\ pc = "loop"
  /\ \E m \in DriveErrors :
       /\ event' = Event("loop", m)
       /\ Catch(userProperties, triggers, m)
  /\ parsed' = NoFile
  /\ UNCHANGED <<folder, classified, lastToken>>

\* Line 198: getProperty(file.getId()) raises, outside the per-item try. The
\* outer catch writes the status at line 232 when the store answers again;
\* when it does not, that write raises too and the exception leaves the
\* function before any trigger is touched.
StoreError ==
  /\ UNCHANGED <<processedLog, elsewhere>>
  /\ CanPull
  /\ \E m \in StoreErrors, answersAgain \in BOOLEAN :
       /\ event' = Event("store", m)
       /\ IF answersAgain
            THEN Catch(userProperties, triggers, m)
            ELSE /\ Return
                 /\ UNCHANGED <<userProperties, triggers>>
  /\ parsed' = NoFile
  /\ UNCHANGED <<folder, classified, lastToken>>

\* Lines 226-229: the enumeration is exhausted.
CompletedPropertiesKeepToken(up) == SetStatus(up, "Completed", <<>>)

CompletedProperties(up) ==
  [SetStatus(up, "Completed", <<>>) EXCEPT !.continuationToken = NoToken]

Completed ==
  /\ UNCHANGED <<processedLog, elsewhere>>
  /\ event' = NoEvent
  /\ pc = "loop"
  /\ ~hasNext(files)
  /\ userProperties' = CompletedProperties(userProperties)
  /\ triggers' = deleteContinuationTriggers(triggers)
  /\ Return
  /\ parsed' = NoFile
  /\ UNCHANGED <<folder, classified, lastToken>>

\* Lines 186-194: the safety stop.
SafetyStopPropertiesNoToken(up, token) ==
  SetStatus(up, "Waiting...", <<" (Safety stop, will continue in 0.5 mins)">>)

SafetyStopProperties(up, token) ==
  SetStatus([up EXCEPT !.continuationToken = token], "Waiting...",
            <<" (Safety stop, will continue in 0.5 mins)">>)

SafetyStopTriggers(trig) ==
  newTrigger(deleteContinuationTriggers(trig), HANDLER)

SafetyStop ==
  /\ UNCHANGED <<processedLog, elsewhere>>
  /\ event' = NoEvent
  /\ pc = "loop"
  /\ hasNext(files)
  /\ BudgetExpired(elapsed)
  /\ userProperties' = SafetyStopProperties(userProperties, files)
  /\ triggers' = SafetyStopTriggers(triggers)
  /\ lastToken' = files
  /\ Return
  /\ parsed' = NoFile
  /\ UNCHANGED <<folder, classified>>

\* The rest of the iteration after the item is dealt with: back to the loop.
Continue(up, count) ==
  /\ userProperties' = up
  /\ processedCount' = count
  /\ pc' = "loop"
  /\ file' = NoFile
  /\ \E d \in 0 .. MaxAdvance : elapsed' = Advance(elapsed, d)
  /\ NoInsert
  /\ UNCHANGED <<triggers, folder, lastToken>>

\* Line 199: the file has a ledger entry.
SkipProcessed ==
  /\ UNCHANGED <<processedLog, elsewhere>>
  /\ event' = NoEvent
  /\ CanPull
  /\ IsProcessed(userProperties.ledger[NextFile])
  /\ files' = NextFile
  /\ parsed' = NoFile
  /\ Continue(userProperties, processedCount)
  /\ UNCHANGED classified

\* A file of another name is given a ledger entry.
SkipOtherNameRecorded ==
  /\ UNCHANGED <<processedLog, elsewhere>>
  /\ event' = NoEvent
  /\ CanPull
  /\ ~IsProcessed(userProperties.ledger[NextFile])
  /\ ~StartsWith(folder[NextFile], "pmix-")
  /\ files' = NextFile
  /\ parsed' = NoFile
  /\ Continue(SetLedger(userProperties, NextFile, "failed_to_parse"),
              processedCount)
  /\ UNCHANGED classified

\* Line 204: the name does not start with 'pmix-'.
SkipOtherName ==
  /\ UNCHANGED <<processedLog, elsewhere>>
  /\ event' = NoEvent
  /\ CanPull
  /\ ~IsProcessed(userProperties.ledger[NextFile])
  /\ ~StartsWith(folder[NextFile], "pmix-")
  /\ files' = NextFile
  /\ parsed' = NoFile
  /\ Continue(userProperties, processedCount)
  /\ UNCHANGED classified

\* PmixParser.parse(file) is called.
CanParse ==
  /\ CanPull
  /\ ~IsProcessed(userProperties.ledger[NextFile])
  /\ StartsWith(folder[NextFile], "pmix-")

\* Line 212: parse returned null.
ParseNullPropertiesFailed(up, f) ==
  SetStatus(up, "Failed: ", <<"could not parse">>)

ParseNullProperties(up, f) == SetLedger(up, f, "failed_to_parse")

ParseNull ==
  /\ UNCHANGED <<processedLog, elsewhere>>
  /\ CanParse
  /\ event' = Event("parse-null", <<>>)
  /\ files' = NextFile
  /\ parsed' = NextFile
  /\ classified' = classified \cup {NextFile}
  /\ Continue(ParseNullProperties(userProperties, NextFile), processedCount)

\* Lines 215-223: the per-item catch.
ItemCatchPropertiesStatusOnly(up, f, name, message) ==
  SetStatus(up, "Error on file: ", name)

ItemCatchProperties(up, f, name, message) ==
  IF Includes(message, TIMED_OUT)
    THEN SetLedger(up, f, "timed_out")
    ELSE SetStatus(up, "Error on file: ", name)

ParseThrows ==
  /\ UNCHANGED <<processedLog, elsewhere>>
  /\ CanParse
  /\ files' = NextFile
  /\ parsed' = NextFile
  /\ \E m \in ParseErrors :
       /\ event' = Event("parse-error", m)
       /\ classified' = IF Includes(m, TIMED_OUT)
                          THEN classified \cup {NextFile} ELSE classified
       /\ Continue(ItemCatchProperties(userProperties, NextFile,
                                       folder[NextFile], m),
                   processedCount)

\* Lines 208-210: loadData has returned.
LoadedPropertiesStaleCount(up, f, count) ==
  [SetLedger(up, f, "true") EXCEPT !.processedCount = count]

LoadedProperties(up, f, count) ==
  [SetLedger(up, f, "true") EXCEPT !.processedCount = count + 1]

\* loadData line 197: nothing to load, it returns at once.
LoadNothing ==
  /\ UNCHANGED <<processedLog, elsewhere>>
  /\ CanParse
  /\ event' = Event("parse-empty", <<>>)
  /\ files' = NextFile
  /\ parsed' = NextFile
  /\ classified' = classified \cup {NextFile}
  /\ Continue(LoadedProperties(userProperties, NextFile, processedCount),
              processedCount + 1)

\* insertWithRetry is entered.
EnterInsert(table) ==
  /\ pc' = "insert"
  /\ tableId' = table
  /\ i' = 0
  /\ delay' = InitialDelay
  /\ e' = NoError
  /\ thrown' = NoError
  /\ log' = <<>>

\* loadData line 207: the 'reports' insert begins.
LoadReports ==
  /\ UNCHANGED <<processedLog, elsewhere>>
  /\ CanParse
  /\ event' = Event("parse-data", <<>>)
  /\ files' = NextFile
  /\ parsed' = NextFile
  /\ file' = NextFile
  /\ EnterInsert("reports")
  /\ UNCHANGED <<userProperties, triggers, folder, elapsed, processedCount,
                 classified, lastToken>>


\* ------------------------------------------- BigQueryLoader.insertWithRetry
ExhaustedMsg(table) ==
  <<"Failed to insert data into ", table, " after ", "4", " attempts.">>

\* One turn of the for loop: insertAll answers r (<<>> when it succeeds).
\* s holds the locals; s.at is where control is afterwards.
\* The delay grows by the initial delay instead of doubling.
insertWithRetryLinear(s, table, r) ==
  LET called == [s EXCEPT !.log = Append(@, 0)]
      caught == [called EXCEPT !.e = Error(r)]
  IN IF r = <<>>
       THEN [called EXCEPT !.at = "returned"]
       ELSE IF IsTransient(caught.e.message)
         THEN LET slept == [caught EXCEPT !.log = Append(@, s.delay),
                                          !.delay = @ + InitialDelay,
                                          !.i = @ + 1]
              IN IF slept.i < maxRetries
                   THEN slept
                   ELSE [slept EXCEPT !.at = "thrown",
                                      !.thrown = Error(ExhaustedMsg(table))]
         ELSE [caught EXCEPT !.thrown = caught.e, !.at = "thrown"]

\* Every error is retried, whatever its message.
insertWithRetryAnyError(s, table, r) ==
  LET called == [s EXCEPT !.log = Append(@, 0)]
      caught == [called EXCEPT !.e = Error(r)]
  IN IF r = <<>>
       THEN [called EXCEPT !.at = "returned"]
       ELSE LET slept == [caught EXCEPT !.log = Append(@, s.delay),
                                        !.delay = @ * 2,
                                        !.i = @ + 1]
            IN IF slept.i < maxRetries
                 THEN slept
                 ELSE [slept EXCEPT !.at = "thrown",
                                    !.thrown = Error(ExhaustedMsg(table))]

insertWithRetry(s, table, r) ==
  LET called == [s EXCEPT !.log = Append(@, 0)]
      caught == [called EXCEPT !.e = Error(r)]
  IN IF r = <<>>
       THEN [called EXCEPT !.at = "returned"]
       ELSE IF IsTransient(caught.e.message)
         THEN LET slept == [caught EXCEPT !.log = Append(@, s.delay),
                                          !.delay = @ * 2,
                                          !.i = @ + 1]
              IN IF slept.i < maxRetries
                   THEN slept
                   ELSE [slept EXCEPT !.at = "thrown",
                                      !.thrown = Error(ExhaustedMsg(table))]
         ELSE [caught EXCEPT !.thrown = caught.e, !.at = "thrown"]

InsertLocals ==
  [i |-> i, delay |-> delay, e |-> e, thrown |-> thrown, log |-> log,
   at |-> "loop"]

InsertAll ==
  /\ UNCHANGED <<processedLog, elsewhere>>
  /\ event' = NoEvent
  /\ pc = "insert"
  /\ \E r \in {<<>>} \cup InsertAllErrors :
       LET s == insertWithRetry(InsertLocals, tableId, r)
       IN /\ i' = s.i
          /\ delay' = s.delay
          /\ e' = s.e
          /\ thrown' = s.thrown
          /\ log' = s.log
          /\ pc' = IF s.at = "loop" THEN "insert" ELSE "loaded"
  /\ parsed' = NoFile
  /\ UNCHANGED <<userProperties, triggers, folder, files, elapsed,
                 processedCount, file, tableId, classified, lastToken>>

\* ------------------------------------------------- BigQueryLoader.loadData
\* The 'metrics' insert begins whatever the 'reports' insert did.
LoadMetricsAlways ==
  /\ UNCHANGED <<processedLog, elsewhere>>
  /\ event' = NoEvent
  /\ pc = "loaded"
  /\ tableId = "reports"
  /\ EnterInsert("metrics")
  /\ parsed' = NoFile
  /\ UNCHANGED <<userProperties, triggers, folder, files, elapsed,
                 processedCount, file, classified, lastToken>>

\* Line 221: the 'reports' insert returned, the 'metrics' insert begins.
LoadMetrics ==
  /\ UNCHANGED <<processedLog, elsewhere>>
  /\ event' = NoEvent
  /\ pc = "loaded"
  /\ tableId = "reports"
  /\ thrown = NoError
  /\ EnterInsert("metrics")
  /\ parsed' = NoFile
  /\ UNCHANGED <<userProperties, triggers, folder, files, elapsed,
                 processedCount, file, classified, lastToken>>

\* Lines 210-214 and 224-226: loadData catches what insertWithRetry throws
\* and returns; processPdfBatch goes on with lines 208-210.
LoadDataReturns ==
  /\ UNCHANGED <<processedLog, elsewhere>>
  /\ event' = NoEvent
  /\ pc = "loaded"
  /\ ~(tableId = "reports" /\ thrown = NoError)
  /\ parsed' = NoFile
  /\ classified' = classified \cup {file}
  /\ UNCHANGED files
  /\ Continue(LoadedProperties(userProperties, file, processedCount),
              processedCount + 1)

\* --------------------------------------------------------- specification
Next ==
  \/ startFullIngestion
  \/ TriggerFires
  \/ LoopError
  \/ StoreError
  \/ Completed
  \/ SafetyStop
  \/ SkipProcessed
  \/ SkipOtherName
  \/ ParseNull
  \/ ParseThrows
  \/ LoadNothing
  \/ LoadReports
  \/ InsertAll
  \/ LoadMetrics
  \/ LoadDataReturns

Spec == Init /\ [][Next]_vars

TypeOK ==
  /\ pc \in {"idle", "loop", "insert", "loaded"}
  /\ files \in 0 .. NFiles
  /\ elapsed \in 0 .. MaxElapsed
  /\ processedCount \in 0 .. NFiles
  /\ userProperties.continuationToken \in {NoToken} \cup (0 .. NFiles)
  /\ userProperties.processedCount \in {NoCount} \cup (0 .. NFiles)
  /\ \A f \in FileIds : userProperties.ledger[f] \in
        {NULL, "true", "failed_to_parse", "timed_out"}
  /\ i \in 0 .. maxRetries

\* ------------------------------------------- a store failure at the count
\* Line 210: the ledger entry of line 208 is written and the count is
\* incremented, then the write of the count fails. The per-item catch takes
\* the error (its text has no "timed out") and writes the status at line 221
\* when the store answers again; when it does not, that write and the write of
\* the outer catch at line 232 raise too and the exception leaves the function.
CountStoreFails ==
  /\ UNCHANGED <<processedLog, elsewhere>>
  /\ pc = "loaded"
  /\ ~(tableId = "reports" /\ thrown = NoError)
  /\ parsed' = NoFile
  /\ classified' = classified \cup {file}
  /\ \E m \in StoreErrors, answersAgain \in BOOLEAN :
       /\ event' = Event("store", m)
       /\ IF answersAgain
            THEN /\ UNCHANGED files
                 /\ Continue(ItemCatchProperties(
                               SetLedger(userProperties, file, "true"),
                               file, folder[file], m),
                             processedCount + 1)
            ELSE /\ userProperties' = SetLedger(userProperties, file, "true")
                 /\ Return
                 /\ UNCHANGED <<triggers, folder, lastToken>>

NextStore == Next \/ CountStoreFails

SpecStore == Init /\ [][NextStore]_vars

\* ------------------------------------------------------ cleanOldMessageIds
\* File ids of Drive have the length of DRIVE_FOLDER_ID.
DriveIdLength == 33

\* A stored value: the decimal digits of a number, or any other text.
Digits(n) == [digits |-> TRUE, n |-> n, text |-> ""]
Text(s) == [digits |-> FALSE, n |-> 0, text |-> s]

NaN == [nan |-> TRUE, n |-> 0]
Number(n) == [nan |-> FALSE, n |-> n]

\* parseInt of a text without leading digits is read as 0.
parseIntZero(value) ==
  IF value.digits THEN Number(value.n) ELSE Number(0)

\* parseInt(userProperties.getProperty(key)): a stored number is read back,
\* any other text ('true', 'timed_out', a status, a date) gives NaN.
parseInt(value) ==
  IF value.digits THEN Number(value.n) ELSE NaN

\* timestamp < cutoff: false when the timestamp is NaN.
LessThan(timestamp, cutoff) == ~timestamp.nan /\ timestamp.n < cutoff

\* Lines 81-83: the key is deleted.
Swept(keyLength, value, cutoff) ==
  keyLength > 20 /\ LessThan(parseInt(value), cutoff)

SweptProperties(up, cutoff) ==
  [ingestionStatus |->
     IF up.ingestionStatus # <<>>
          /\ Swept(Len("ingestionStatus"), Text("status"), cutoff)
       THEN <<>> ELSE up.ingestionStatus,
   processedCount |->
     IF up.processedCount # NoCount
          /\ Swept(Len("processedCount"), Digits(up.processedCount), cutoff)
       THEN NoCount ELSE up.processedCount,
   lastRunTimestamp |->
     IF up.lastRunTimestamp
          /\ Swept(Len("lastRunTimestamp"), Text("date"), cutoff)
       THEN FALSE ELSE up.lastRunTimestamp,
   continuationToken |->
     IF up.continuationToken # NoToken
          /\ Swept(Len("continuationToken"), Digits(up.continuationToken), cutoff)
       THEN NoToken ELSE up.continuationToken,
   ledger |->
     [f \in FileIds |->
        IF up.ledger[f] # NULL /\ Swept(DriveIdLength, Text(up.ledger[f]), cutoff)
          THEN NULL ELSE up.ledger[f]]]

SweptLog(logged, cutoff) ==
  [m \in Messages |->
     IF logged[m] # NoStamp /\ Swept(mailbox[m].idLength, Digits(logged[m]), cutoff)
       THEN NoStamp ELSE logged[m]]

\* One run of cleanOldMessageIds at day `now`.
cleanOldMessageIds(now) ==
  LET cutoff == now - LOG_RETENTION_DAYS
  IN /\ userProperties' = SweptProperties(userProperties, cutoff)
     /\ processedLog' = SweptLog(processedLog, cutoff)

\* The daily trigger of the cleanup fires between two invocations, on the
\* first day whose cutoff is not negative or on the last day.
CleanupFires ==
  /\ pc = "idle"
  /\ \E now \in {LOG_RETENTION_DAYS, MaxDay} : cleanOldMessageIds(now)
  /\ event' = Event("sweep", <<>>)
  /\ UNCHANGED <<engineVars, elsewhere>>

NextSweep == Next \/ CleanupFires

SpecSweep == Init /\ [][NextSweep]_vars

\* ------------------------------------------------- harvestNewPdfsFromGmail
Delivered(m) == mailbox[m].received # NotYet

\* newer_than:7d
Newer(m) == Delivered(m) /\ mailbox[m].received > today - SEARCH_WINDOW_DAYS

\* Lines 28-39: GmailApp.search answers the threads that hold a message
\* matching the query, and thread.getMessages() every message of such a thread.
Visited(m) ==
  /\ Delivered(m)
  /\ \E n \in Messages : mailbox[n].thread = mailbox[m].thread /\ Newer(n)

\* Line 42: the message id is not in the log.
Unlogged(m) == processedLog[m] = NoStamp

\* A report arrives; messages are numbered in order of arrival.
Deliver ==
  /\ \E m \in Messages :
       /\ ~Delivered(m)
       /\ \A n \in Messages : n < m => Delivered(n)
       /\ mailbox' = [mailbox EXCEPT ![m].received = today]
  /\ UNCHANGED <<userProperties, processedLog, today, saved, event, engineVars,
                 rateVars, inv>>

Tick ==
  /\ today < MaxDay
  /\ today' = today + 1
  /\ UNCHANGED <<userProperties, processedLog, mailbox, saved, event,
                 engineVars, rateVars, inv>>

\* One run of the harvester; createFile fails for the messages in `failing`
\* (lines 56-58: the error is logged and the message id is not recorded).
harvestNewPdfsFromGmail ==
  /\ \E failing \in SUBSET Messages :
       LET harvested ==
             {m \in Messages : Visited(m) /\ Unlogged(m) /\ m \notin failing}
       IN /\ saved' = [m \in Messages |->
                         IF m \in harvested /\ saved[m] < 2
                           THEN saved[m] + 1 ELSE saved[m]]
          /\ processedLog' = [m \in Messages |->
                                IF m \in harvested THEN today
                                                   ELSE processedLog[m]]
  /\ UNCHANGED <<userProperties, mailbox, today, event, engineVars, rateVars,
                 inv>>

\* The daily cleanup.
CleanupRuns ==
  /\ cleanOldMessageIds(today)
  /\ UNCHANGED <<mailbox, today, saved, event, engineVars, rateVars, inv>>

\* The threads of the messages and the lengths of their ids.
Mailboxes ==
  {box \in [Messages -> [received : {NotYet}, thread : Messages,
                         idLength : MessageIdLengths]] :
     \A m \in Messages : box[m].thread <= m}

InitHarvest ==
  /\ folder = <<>>
  /\ EngineIdle
  /\ LimiterIdle
  /\ mailbox \in Mailboxes
  /\ processedLog = EmptyLog
  /\ today = 0
  /\ saved = [m \in Messages |-> 0]

NextHarvest ==
  \/ Deliver
  \/ Tick
  \/ harvestNewPdfsFromGmail
  \/ CleanupRuns

SpecHarvest == InitHarvest /\ [][NextHarvest]_vars

\* The harvester and the ingestion job work on the same user properties.
\* Within one day: the clock stands still and no cleanup is due.
NextShared ==
  \/ Deliver
  \/ harvestNewPdfsFromGmail
  \/ startFullIngestion
  \/ TriggerFires

SpecShared == InitHarvest /\ [][NextShared]_vars

\* ------------------------------------------- SecurityUtils.checkRateLimit
\* Date.now() at second t.
Millis(t) == t * 1000

\* An attempt leaves the window a second early.
InWindowShort(timestamp, now, windowMs) == now - timestamp < windowMs - 1000

\* Line 529: the attempt is kept.
InWindow(timestamp, now, windowMs) == now - timestamp < windowMs

\* Lines 516-525: cache.get answers the value that was put until it expires.
\* JSON.parse(JSON.stringify(list)) of a list of integers is the list.
CachedAttempts == IF currentTime < cache.expires THEN cache.value ELSE <<>>

\* Lines 528-530.
Filtered(attempts, now, windowMs) ==
  LET Keep(timestamp) == InWindow(timestamp, now, windowMs)
  IN SelectSeq(attempts, Keep)

\* One call of checkRateLimit(key, maxAttempts, windowSeconds).
checkRateLimit ==
  LET now == Millis(currentTime)
      windowMs == limit.windowSeconds * 1000
      attempts == Filtered(CachedAttempts, now, windowMs)
  IN /\ grants[currentTime] <= MaxAttemptsArg
     /\ IF Len(attempts) >= limit.maxAttempts
          THEN /\ allowed' = "false"
               /\ UNCHANGED <<cache, grants>>
          ELSE /\ allowed' = "true"
               /\ cache' = [value |-> Append(attempts, now),
                            expires |-> currentTime + limit.windowSeconds]
               /\ grants' = [grants EXCEPT ![currentTime] = @ + 1]
     /\ UNCHANGED <<currentTime, limit, userProperties, processedLog, event,
                    engineVars, harvestVars, inv>>

\* A second passes between two calls.
ClockAdvances ==
  /\ currentTime < MaxSeconds
  /\ currentTime' = currentTime + 1
  /\ UNCHANGED <<cache, grants, allowed, limit, userProperties, processedLog,
                 event, engineVars, harvestVars, inv>>

InitRate ==
  /\ folder = <<>>
  /\ EngineIdle
  /\ HarvesterIdle
  /\ cache = NoCache
  /\ currentTime = 0
  /\ grants = [t \in Seconds |-> 0]
  /\ allowed = NULL
  /\ limit \in [maxAttempts : 1 .. MaxAttemptsArg,
                windowSeconds : 1 .. MaxWindowArg]

NextRate ==
  \/ checkRateLimit
  \/ ClockAdvances

SpecRate == InitRate /\ [][NextRate]_vars

\* ------------------------------------------------ overlapping invocations
\* Nothing in startFullIngestion or processPdfBatch takes a lock or looks for
\* a running execution: the runtime starts the function whenever the menu item
\* is chosen or a trigger is due. Each invocation k has its own locals inv[k]
\* and takes its steps on the shared property store and trigger list:
\*   entry        - processPdfBatch is about to run line 161
\*   loop         - at the top of the while loop
\*   item         - a file has been pulled and found without a ledger entry
\*   stop-delete  - line 187 done, deleteContinuationTriggers (188) is next
\*   stop-create  - line 188 done, newTrigger (189) is next
\*   catch        - an error has reached the catch of line 231
\*   retry-create - line 235 done, newTrigger (236) is next
Active(k) == inv[k].pc \notin {"idle", "entry"}

\* An invocation that outlives a fresh start goes on counting from its own
\* local count: the stored count is capped for the exploration.
MaxCount == NFiles + NFiles

Step(k, locals) ==
  /\ inv' = [inv EXCEPT ![k] = locals]
  /\ UNCHANGED <<folder, engineLocals, event, harvestVars, rateVars>>

\* Lines 142-148, from the menu.
ManualStart ==
  /\ inv["manual"].pc = "idle"
  /\ triggers' = deleteContinuationTriggers(triggers)
  /\ userProperties' = startFullIngestionProperties(userProperties)
  /\ processedLog' = EmptyLog
  /\ Step("manual", [IdleInvocation EXCEPT !.pc = "entry"])

\* The scheduler starts the function of a due processPdfBatch trigger.
SchedulerFires ==
  /\ inv["scheduled"].pc = "idle"
  /\ triggers[HANDLER] > 0
  /\ triggers' = [triggers EXCEPT ![HANDLER] = @ - 1]
  /\ Step("scheduled", [IdleInvocation EXCEPT !.pc = "entry"])
  /\ UNCHANGED <<userProperties, processedLog>>

\* Lines 161-181.
Enter(k) ==
  /\ inv[k].pc = "entry"
  /\ LET running == EntryProperties(userProperties)
         start == OpenIterator(running.continuationToken)
     IN \E m \in {<<>>} \cup DriveErrors :
          IF m # <<>>
            THEN /\ userProperties' = running
                 /\ Step(k, [inv[k] EXCEPT !.pc = "catch", !.message = m])
            ELSE IF ~hasNext(start) /\ running.continuationToken = NoToken
              THEN /\ userProperties' =
                        SetStatus(running, "Completed", <<" (No files found)">>)
                   /\ Step(k, IdleInvocation)
              ELSE /\ userProperties' = running
                   /\ Step(k, [inv[k] EXCEPT
                                 !.pc = "loop",
                                 !.files = start,
                                 !.count = ParseCount(running.processedCount)])
  /\ UNCHANGED <<triggers, processedLog>>

\* Lines 226-229.
Finish(k) ==
  /\ inv[k].pc = "loop"
  /\ ~hasNext(inv[k].files)
  /\ userProperties' = CompletedProperties(userProperties)
  /\ triggers' = deleteContinuationTriggers(triggers)
  /\ Step(k, IdleInvocation)
  /\ UNCHANGED processedLog

\* Lines 185-187: the budget is found expired and the cursor is stored.
StopStore(k) ==
  /\ inv[k].pc = "loop"
  /\ hasNext(inv[k].files)
  /\ \E timeElapsed \in 0 .. MaxElapsed : BudgetExpired(timeElapsed)
  /\ userProperties' =
       [userProperties EXCEPT !.continuationToken = inv[k].files]
  /\ Step(k, [inv[k] EXCEPT !.pc = "stop-delete"])
  /\ UNCHANGED <<triggers, processedLog>>

\* Line 188.
StopDelete(k) ==
  /\ inv[k].pc = "stop-delete"
  /\ triggers' = deleteContinuationTriggers(triggers)
  /\ Step(k, [inv[k] EXCEPT !.pc = "stop-create"])
  /\ UNCHANGED <<userProperties, processedLog>>

\* Lines 189-193.
StopCreate(k) ==
  /\ inv[k].pc = "stop-create"
  /\ triggers' = newTrigger(triggers, HANDLER)
  /\ userProperties' =
       SetStatus(userProperties, "Waiting...",
                 <<" (Safety stop, will continue in 0.5 mins)">>)
  /\ Step(k, IdleInvocation)
  /\ UNCHANGED processedLog

\* Lines 196-204: the next file is pulled and looked up in the ledger.
Pull(k) ==
  /\ inv[k].pc = "loop"
  /\ hasNext(inv[k].files)
  /\ \E timeElapsed \in 0 .. MaxElapsed : ~BudgetExpired(timeElapsed)
  /\ LET f == inv[k].files + 1
     IN IF IsProcessed(userProperties.ledger[f])
             \/ ~StartsWith(folder[f], "pmix-")
          THEN Step(k, [inv[k] EXCEPT !.files = f])
          ELSE Step(k, [inv[k] EXCEPT !.files = f, !.file = f, !.pc = "item"])
  /\ UNCHANGED <<userProperties, triggers, processedLog>>

\* Lines 205-223: the file is parsed and loaded, and the outcome is stored.
Item(k) ==
  /\ inv[k].pc = "item"
  /\ \/ /\ inv[k].count < MaxCount
        /\ userProperties' =
             LoadedProperties(userProperties, inv[k].file, inv[k].count)
        /\ Step(k, [inv[k] EXCEPT !.pc = "loop", !.file = NoFile,
                                  !.count = @ + 1])
     \/ /\ userProperties' = ParseNullProperties(userProperties, inv[k].file)
        /\ Step(k, [inv[k] EXCEPT !.pc = "loop", !.file = NoFile])
     \/ /\ \E m \in ParseErrors :
             userProperties' =
               ItemCatchProperties(userProperties, inv[k].file,
                                   folder[inv[k].file], m)
        /\ Step(k, [inv[k] EXCEPT !.pc = "loop", !.file = NoFile])
  /\ UNCHANGED <<triggers, processedLog>>

\* Lines 232-235 and 239.
Caught(k) ==
  /\ inv[k].pc = "catch"
  /\ userProperties' = CatchProperties(userProperties, inv[k].message)
  /\ triggers' = deleteContinuationTriggers(triggers)
  /\ IF IsTransient(inv[k].message)
       THEN Step(k, [inv[k] EXCEPT !.pc = "retry-create"])
       ELSE Step(k, IdleInvocation)
  /\ UNCHANGED processedLog

\* Line 236.
RetryCreate(k) ==
  /\ inv[k].pc = "retry-create"
  /\ triggers' = newTrigger(triggers, HANDLER)
  /\ Step(k, IdleInvocation)
  /\ UNCHANGED <<userProperties, processedLog>>

NextOverlap ==
  \/ ManualStart
  \/ SchedulerFires
  \/ \E k \in Invocations : Enter(k)
  \/ \E k \in Invocations : Finish(k)
  \/ \E k \in Invocations : StopStore(k)
  \/ \E k \in Invocations : StopDelete(k)
  \/ \E k \in Invocations : StopCreate(k)
  \/ \E k \in Invocations : Pull(k)
  \/ \E k \in Invocations : Item(k)
  \/ \E k \in Invocations : Caught(k)
  \/ \E k \in Invocations : RetryCreate(k)

SpecOverlap == Init /\ [][NextOverlap]_vars

\* ------------------------------------------------- the recurring triggers
\* deleteTriggersForCurrentUser, Code.js lines 260-268.
RecurringHandlers == {"harvestNewPdfsFromGmail", "cleanOldMessageIds"}

\* removeTriggersByFunction deletes nothing.
removeTriggersByFunctionNone(trig, functionName) == trig

\* TriggerManager.removeTriggersByFunction, lines 175-183.
removeTriggersByFunction(trig, functionName) ==
  [trig EXCEPT ![functionName] = 0]

deleteTriggersForCurrentUser(trig) ==
  [h \in Handlers |-> IF h \in RecurringHandlers THEN 0 ELSE trig[h]]

\* What a loop of deleteTrigger calls leaves when one of the calls throws.
PartlyDeleted(trig, hs) ==
  {t \in [Handlers -> 0 .. MaxTriggers] :
     \A h \in Handlers : IF h \in hs THEN t[h] <= trig[h] ELSE t[h] = trig[h]}

SetupFrame ==
  UNCHANGED <<userProperties, folder, engineLocals, processedLog, elsewhere>>

\* runInitialSetup, Code.js lines 93-130. The services it touches, the
\* deletions and each create() may throw; the catch reports and returns.
runInitialSetup ==
  /\ \E outcome \in {"ok", "authorization", "delete", "harvester", "cleanup"} :
       LET cleared == deleteTriggersForCurrentUser(triggers)
           first == newTrigger(cleared, "harvestNewPdfsFromGmail")
       IN /\ outcome = "ok" =>
               triggers' = newTrigger(first, "cleanOldMessageIds")
          /\ outcome = "authorization" => triggers' = triggers
          /\ outcome = "delete" =>
               triggers' \in PartlyDeleted(triggers, RecurringHandlers)
          /\ outcome = "harvester" => triggers' = cleared
          /\ outcome = "cleanup" => triggers' = first
          /\ event' = Event(IF outcome = "ok" THEN "installed" ELSE "denied",
                            <<"runInitialSetup">>)
  /\ SetupFrame

\* The body of setupDailyReportTrigger and of setupWeeklyReportTrigger,
\* TriggerManager.js lines 12-40 and 46-73, for their handler.
SetupReportTrigger(trig, handler, outcome) ==
  IF outcome = "ok"
    THEN {newTrigger(removeTriggersByFunction(trig, handler), handler)}
    ELSE IF outcome = "remove"
      THEN PartlyDeleted(trig, {handler})
      ELSE {removeTriggersByFunction(trig, handler)}

SetupOutcomes == {"ok", "remove", "create"}

setupDailyReportTrigger ==
  /\ \E outcome \in SetupOutcomes :
       /\ triggers' \in
            SetupReportTrigger(triggers, "runDailyReportTrigger", outcome)
       /\ event' = Event(IF outcome = "ok" THEN "installed" ELSE "denied",
                         <<"setupDailyReportTrigger">>)
  /\ SetupFrame

setupWeeklyReportTrigger ==
  /\ \E outcome \in SetupOutcomes :
       /\ triggers' \in
            SetupReportTrigger(triggers, "runWeeklyReportTrigger", outcome)
       /\ event' = Event(IF outcome = "ok" THEN "installed" ELSE "denied",
                         <<"setupWeeklyReportTrigger">>)
  /\ SetupFrame

\* setupAllReportTriggers, lines 78-87: the weekly setup runs whatever the
\* daily setup returned.
setupAllReportTriggers ==
  /\ \E daily \in SetupOutcomes, weekly \in SetupOutcomes :
       \E t \in SetupReportTrigger(triggers, "runDailyReportTrigger", daily) :
         /\ triggers' \in
              SetupReportTrigger(t, "runWeeklyReportTrigger", weekly)
         /\ event' = Event(IF daily = "ok" /\ weekly = "ok"
                             THEN "installed" ELSE "denied",
                           <<"setupAllReportTriggers">>)
  /\ SetupFrame

\* The triggers of the project before a setup runs: those of earlier setups
\* and those added in the script editor.
InitSetup ==
  /\ triggers \in [Handlers -> 0 .. MaxTriggers]
  /\ triggers[HANDLER] = 0
  /\ folder = <<>>
  /\ NothingRun
  /\ HarvesterIdle
  /\ LimiterIdle

NextSetup ==
  \/ runInitialSetup
  \/ setupDailyReportTrigger
  \/ setupWeeklyReportTrigger
  \/ setupAllReportTriggers

SpecSetup == InitSetup /\ [][NextSetup]_vars

\* ---------------------------------------------------------------- fairness
\* A step of the invocation that is running.
InvocationStep ==
  \/ LoopError
  \/ StoreError
  \/ Completed
  \/ SafetyStop
  \/ SkipProcessed
  \/ SkipOtherName
  \/ ParseNull
  \/ ParseThrows
  \/ LoadNothing
  \/ LoadReports
  \/ InsertAll
  \/ LoadMetrics
  \/ LoadDataReturns

\* The runtime keeps executing a started invocation, and the scheduler fires
\* a pending trigger when it is due. Nothing makes a user start a run.
LiveSpec ==
  /\ Spec
  /\ WF_vars(InvocationStep)
  /\ WF_vars(TriggerFires)

\* ================================================================ claims
Status == userProperties.ingestionStatus

StatusIs(head) == Len(Status) > 0 /\ Status[1] = head

Cursor == userProperties.continuationToken

Ledger == userProperties.ledger

Pending == triggers[HANDLER]

\* insertAll is called for file f in the step that leaves this state.
SinkCalled(f) == pc = "insert" /\ file = f

\* C1: once a file has had a ledger entry, no later step of the same or of a
\* later run hands it to PmixParser.parse or calls insertAll for it.
C1_NeverSubmittedAgain ==
  [][\A f \in classified : parsed' # f /\ ~SinkCalled(f)]_vars

\* C1 (amended): a file whose ledger entry is stored is handed neither to
\* PmixParser.parse nor to insertAll; only a fresh start, which deletes every
\* entry, makes the file eligible again.
C1_NoSubmitWhileRecorded ==
  [][\A f \in FileIds :
       Ledger[f] # NULL => parsed' # f /\ ~SinkCalled(f)]_vars

\* A restarted pass has pulled file 1, which holds 'timed_out', and skipped it:
\* file 2 was classified by an earlier invocation of the run.
C1_Witness ==
  /\ pc = "loop"
  /\ files = 1
  /\ parsed = NoFile
  /\ Ledger[1] = "timed_out"
  /\ Ledger[2] = "true"

\* C2: with invocations that do not overlap, at most one processPdfBatch
\* trigger is pending in every reachable state.
C2_SinglePendingContinuation == Pending <= 1

\* A transient failure of a resumed invocation has registered the
\* continuation again while a cursor from a safety stop is stored.
C2_Witness ==
  /\ pc = "idle"
  /\ Pending = 1
  /\ StatusIs("Failed: ")
  /\ Cursor # NoToken


Terminal == {"true", "failed_to_parse", "timed_out"}

\* C3: when the status is 'Completed', every 'pmix-' file of the folder has a
\* terminal ledger outcome.
C3_CompletedMeansAllClassified ==
  StatusIs("Completed") =>
    \A f \in DOMAIN folder :
      StartsWith(folder[f], "pmix-") => Ledger[f] \in Terminal

\* C4: a step that ends the invocation with the 'Waiting...' status was taken
\* with the budget expired and a file left, stores the iterator's position as
\* the cursor, leaves exactly one continuation pending and touches neither the
\* ledger nor the count; with the budget expired no step pulls a file; and an
\* invocation that starts with a cursor stored opens the iterator exactly there.
C4_SafetyStop ==
  [][/\ (pc = "loop" /\ pc' = "idle"
           /\ userProperties'.ingestionStatus[1] = "Waiting...") =>
          /\ hasNext(files)
          /\ BudgetExpired(elapsed)
          /\ userProperties'.continuationToken = files
          /\ triggers'[HANDLER] = 1
          /\ userProperties'.ledger = Ledger
          /\ userProperties'.processedCount = userProperties.processedCount
     /\ (pc = "loop" /\ hasNext(files) /\ BudgetExpired(elapsed)) =>
          /\ pc' = "idle"
          /\ parsed' = NoFile
          /\ userProperties'.ledger = Ledger
     /\ (pc = "idle" /\ pc' = "loop"
           /\ userProperties'.continuationToken # NoToken) =>
          /\ userProperties'.continuationToken = Cursor
          /\ files' = Cursor
    ]_vars

\* Scenario A: three files, a safety stop after the second, and the run has
\* completed with all three loaded.
C4_Witness ==
  /\ pc = "idle"
  /\ Len(folder) = 3
  /\ lastToken = 2
  /\ Status = <<"Completed", <<>>>>
  /\ \A f \in 1 .. 3 : Ledger[f] = "true"
  /\ userProperties.processedCount = 3

\* C5: whenever the status begins with 'Completed', no cursor is stored and no
\* processPdfBatch continuation is pending.
C5_CompletedIsClean ==
  StatusIs("Completed") => Cursor = NoToken /\ Pending = 0

\* The run was interrupted by a safety stop, resumed and completed.
C5_Witness ==
  /\ pc = "idle"
  /\ Status = <<"Completed", <<>>>>
  /\ lastToken # NoToken

\* C6: a stored cursor is the token the iterator returned at the latest safety
\* stop of the run.
C6_CursorFresh == Cursor # NoToken => Cursor = lastToken

\* A resumed invocation failed and left the cursor of the latest stop behind.
C6_Witness ==
  /\ pc = "idle"
  /\ StatusIs("Failed: ")
  /\ Cursor # NoToken
  /\ Cursor = lastToken
  /\ Pending = 0


\* ------------------------------------------------- reading the retry log
\* The positions of the insertAll calls in a log.
AttemptsAt(l) == {k \in DOMAIN l : l[k] = 0}

Attempts(l) == Cardinality(AttemptsAt(l))

\* The position of the n-th insertAll call.
AttemptIndex(l, n) ==
  CHOOSE k \in AttemptsAt(l) :
    Cardinality({j \in AttemptsAt(l) : j <= k}) = n

\* What the log holds right before the n-th insertAll call (0: no sleep).
DelayBefore(l, n) ==
  IF AttemptIndex(l, n) = 1 THEN 0 ELSE l[AttemptIndex(l, n) - 1]

\* insertWithRetry has ended by throwing and the last insertAll error it
\* caught was transient: every attempt failed with the transient signature.
AllAttemptsTransient ==
  pc = "loaded" /\ thrown # NoError /\ IsTransient(e.message)

\* C7: no call of insertWithRetry makes more than 4 insertAll calls; when all
\* of them fail with the transient error exactly 4 are made, and the sleeps
\* before the 2nd, 3rd and 4th are 1000, 2000 and 4000 ms.
C7_BoundedBackoff ==
  /\ Attempts(log) <= maxRetries
  /\ AllAttemptsTransient =>
       /\ Attempts(log) = 4
       /\ DelayBefore(log, 2) = 1000
       /\ DelayBefore(log, 3) = 2000
       /\ DelayBefore(log, 4) = 4000
       /\ \A n \in 3 .. 4 : DelayBefore(log, n) = 2 * DelayBefore(log, n - 1)

\* The 'metrics' insert has failed four times with the transient error.
C7_Witness ==
  /\ AllAttemptsTransient
  /\ tableId = "metrics"
  /\ Attempts(log) = 4

\* C8: a step in which insertAll raises an error without the transient
\* signature ends insertWithRetry at once: that very error is thrown, nothing
\* is slept after the call and the loop index does not move.
C8_FatalImmediately ==
  [][(pc = "insert" /\ e' # NoError /\ ~IsTransient(e'.message)) =>
       /\ pc' = "loaded"
       /\ thrown' = e'
       /\ log' = Append(log, 0)
       /\ i' = i
       /\ delay' = delay]_vars

\* The third insertAll call raised the fatal error after two transient ones.
C8_Witness ==
  /\ pc = "loaded"
  /\ thrown = Error(FatalMsg)
  /\ log = <<0, 1000, 0, 2000, 0>>

\* An error carries another: as its cause, or with its text in the message.
Carries(outer, inner) ==
  \/ outer.cause = inner.message
  \/ \A k \in DOMAIN inner.message : Includes(outer.message, inner.message[k])

\* C9: the error insertWithRetry throws after 4 transient failures carries the
\* last error insertAll raised.
C9_ExhaustionWrapsLast == AllAttemptsTransient => Carries(thrown, e)

\* C10: when insertWithRetry returns normally, it made one insertAll call
\* more than the transient failures it slept on, fewer than 4 of them; and when
\* the 'metrics' insert of a file has returned normally, the next step stores
\* 'true' for the file and adds one to the stored processedCount.
C10_RetryThenSuccess ==
  [][(pc = "loaded" /\ thrown = NoError) =>
       /\ i < maxRetries
       /\ Attempts(log) = i + 1
       /\ Len(log) = 2 * i + 1
       /\ tableId = "metrics" =>
            /\ pc' = "loop"
            /\ userProperties'.ledger[file] = "true"
            /\ userProperties'.processedCount =
                 userProperties.processedCount + 1
            /\ processedCount' = processedCount + 1]_vars

\* Scenario B: the 'metrics' insert failed twice with the transient error and
\* succeeded at the third call.
C10_Witness ==
  /\ pc = "loaded"
  /\ tableId = "metrics"
  /\ thrown = NoError
  /\ log = <<0, 1000, 0, 2000, 0>>


\* ------------------------------------------------------ reading the steps
\* The next state is the one right after PmixParser.parse threw.
ParseRaised == event'.kind = "parse-error"

\* insertWithRetry has thrown into loadData; the step that leaves this state
\* is loadData's catch and processPdfBatch's lines 208-210.
SinkFailed == pc = "loaded" /\ thrown # NoError

StatusHead(up) ==
  IF Len(up.ingestionStatus) > 0 THEN up.ingestionStatus[1] ELSE NULL

\* C11: a file whose sink write ended with insertWithRetry throwing (retry
\* exhaustion or a fatal error) is not given the ledger value 'true' and does
\* not raise processedCount.
C11_SuccessMeansWritten ==
  [][SinkFailed =>
       /\ userProperties'.ledger[file] # "true"
       /\ userProperties'.processedCount = userProperties.processedCount
    ]_vars

\* C12: in the step in which PmixParser.parse returns null the file gets the
\* ledger value 'failed_to_parse', insertWithRetry is not entered, the stored
\* and the local count, the status and the triggers are unchanged, and the
\* invocation is back at the top of the loop with the file consumed.
C12_NullIsFailedParse ==
  [][event'.kind = "parse-null" =>
       /\ userProperties'.ledger[parsed'] = "failed_to_parse"
       /\ pc' = "loop"
       /\ files' = files + 1
       /\ parsed' = files'
       /\ userProperties'.processedCount = userProperties.processedCount
       /\ processedCount' = processedCount
       /\ userProperties'.ingestionStatus = Status
       /\ StatusHead(userProperties') # "Failed: "
       /\ triggers' = triggers
    ]_vars

\* Scenario C: file 1 could not be parsed, the loop went on and loaded file 2.
C12_Witness ==
  /\ pc = "loop"
  /\ files = 2
  /\ Ledger[1] = "failed_to_parse"
  /\ Ledger[2] = "true"
  /\ userProperties.processedCount = 1
  /\ StatusIs("Running...")

\* C13: in the step in which processing a file raises an error whose message
\* contains 'timed out' the file gets the ledger value 'timed_out', the status
\* and the triggers are unchanged and the invocation is back at the top of the
\* loop.
C13_TimeoutIsTimedOut ==
  [][(ParseRaised /\ Includes(event'.message, TIMED_OUT)) =>
       /\ userProperties'.ledger[parsed'] = "timed_out"
       /\ pc' = "loop"
       /\ files' = files + 1
       /\ userProperties'.ingestionStatus = Status
       /\ StatusHead(userProperties') # "Failed: "
       /\ triggers' = triggers
    ]_vars

\* File 1 timed out and the same invocation went on to file 2.
C13_Witness ==
  /\ pc = "loop"
  /\ files = 2
  /\ Ledger[1] = "timed_out"
  /\ event.kind = "parse-null"

\* C14: an error raised while one file is processed (by the extractor or by
\* the sink) is recorded in the file's ledger entry or in the status message,
\* the invocation goes on at the top of the loop, the status does not become
\* 'Failed' and no trigger is registered.
C14_ItemErrorsRecordedAndContained ==
  [][(ParseRaised \/ SinkFailed) =>
       /\ pc' = "loop"
       /\ triggers' = triggers
       /\ StatusHead(userProperties') # "Failed: "
       /\ \/ userProperties'.ledger[IF ParseRaised THEN parsed' ELSE file]
               \in {"failed_to_parse", "timed_out"}
          \/ StatusHead(userProperties') = "Error on file: "
    ]_vars

\* C15: an error of the sink is still on record after the step that handles
\* it, and a recorded per-item error is not erased by the step that ends the
\* invocation.
C15_NoErrorDropped ==
  [][/\ SinkFailed =>
          \/ userProperties'.ledger[file] \in {"failed_to_parse", "timed_out"}
          \/ StatusHead(userProperties') \in {"Error on file: ", "Failed: "}
     /\ (pc = "loop" /\ pc' = "idle" /\ StatusIs("Error on file: ")) =>
          StatusHead(userProperties') \in {"Error on file: ", "Failed: "}
    ]_vars

\* C16: after a setup error with the transient signature the status is not a
\* failure text and exactly one continuation is pending.
C16_TransientSetupIsRetryScheduled ==
  [][(event'.kind = "setup" /\ IsTransient(event'.message)) =>
       /\ StatusHead(userProperties') # "Failed: "
       /\ triggers'[HANDLER] = 1
    ]_vars

\* C17: an error raised in the loop after a file has been processed in the
\* invocation registers no continuation.
C17_NoRetryAfterAnItem ==
  [][(pc = "loop" /\ parsed # NoFile /\ event'.kind \in {"loop", "store"}) =>
       triggers'[HANDLER] = 0
    ]_vars

\* C18: after a setup error without the transient signature the invocation has
\* ended, the status is 'Failed: ' followed by the message, and no continuation
\* is pending, so that only startFullIngestion can start an invocation.
C18_FatalSetupFails ==
  [][(event'.kind = "setup" /\ ~IsTransient(event'.message)) =>
       /\ pc' = "idle"
       /\ userProperties'.ingestionStatus = <<"Failed: ", event'.message>>
       /\ triggers'[HANDLER] = 0
    ]_vars


\* A resumed invocation could not open the folder: the continuation that
\* started it is gone and none was registered.
C18_Witness ==
  /\ pc = "idle"
  /\ event = Event("setup", NotFoundMsg)
  /\ Status = <<"Failed: ", NotFoundMsg>>
  /\ Cursor # NoToken
  /\ Pending = 0

\* C19: after a step in which an access to the property store fails, the
\* invocation has ended with a 'Failed' status and no continuation pending.
C19_StoreFailureIsFatal ==
  [][event'.kind = "store" =>
       /\ pc' = "idle"
       /\ StatusHead(userProperties') = "Failed: "
       /\ triggers'[HANDLER] = 0
    ]_vars

\* C20: at the top of the loop with a file left and the elapsed time at or
\* above EXECUTION_TIME_LIMIT_MINUTES - TIME_BUFFER_MINUTES, no file is pulled.
C20_ExpiredAtThreshold ==
  [][(pc = "loop" /\ hasNext(files) /\ elapsed >= Threshold) =>
       /\ files' # files + 1
       /\ parsed' = NoFile
    ]_vars


\* C21: a file is pulled from the iterator only in a step whose budget check,
\* made in the same turn of the loop, found the budget not expired; an
\* invocation that finds the budget expired with a file left returns in that
\* step without pulling or parsing; and no file is pulled inside loadData.
C21_BudgetPolledBeforeEveryItem ==
  [][/\ (pc = "loop" /\ files' = files + 1) => ~BudgetExpired(elapsed)
     /\ (pc = "loop" /\ hasNext(files) /\ BudgetExpired(elapsed)) =>
          /\ pc' = "idle"
          /\ files' # files + 1
          /\ parsed' = NoFile
          /\ \A f \in FileIds : userProperties'.ledger[f] = Ledger[f]
     /\ pc \in {"insert", "loaded"} => files' = files
    ]_vars

\* The setup of a fresh start took longer than the budget: the invocation
\* stopped before it pulled its first file.
C21_Witness ==
  /\ pc = "idle"
  /\ StatusIs("Waiting...")
  /\ Cursor = 0
  /\ Pending = 1
  /\ classified = {}


\* A 'pmix-' file of the folder: an item of the work source.
IsItem(f) == f \in DOMAIN folder /\ StartsWith(folder[f], "pmix-")

\* C22: files are handed to PmixParser.parse in listing order; within a run a
\* terminal ledger value is never changed; and an invocation that resumes at
\* a stored cursor leaves no item without a terminal ledger value before it.
C22_OrderAndSingleClassification ==
  [][/\ parsed' # NoFile => pc = "loop" /\ parsed' = files + 1 /\ files' = parsed'
     /\ ~startFullIngestion =>
          \A f \in FileIds : Ledger[f] \in Terminal =>
            userProperties'.ledger[f] = Ledger[f]
     /\ (pc = "idle" /\ pc' = "loop") =>
          \A f \in 1 .. files' : IsItem(f) => Ledger[f] \in Terminal
    ]_vars


\* C24: between invocations, once one has run, the stored status is a
\* 'Completed', 'Waiting...' or 'Failed: ' text.
C24_ReturnsInTerminalOrWaiting ==
  (pc = "idle" /\ Status # <<>>) =>
    StatusHead(userProperties) \in {"Completed", "Waiting...", "Failed: "}


\* C25: the step that is a fresh start leaves no ledger entry and no cursor;
\* when it ends with the invocation in the loop, no file has been pulled, the
\* iterator is at the beginning of the listing, the stored and the local count
\* are 0, the status is 'Running...' and no continuation is pending; the only
\* continuation a fresh start can leave is the one its own transient setup
\* failure registers.
C25_FreshStartResets ==
  [][startFullIngestion =>
       /\ \A f \in FileIds : userProperties'.ledger[f] = NULL
       /\ userProperties'.continuationToken = NoToken
       /\ pc' = "loop" =>
            /\ files' = 0
            /\ parsed' = NoFile
            /\ processedCount' = 0
            /\ userProperties'.processedCount = 0
            /\ userProperties'.ingestionStatus = <<"Running...", <<>>>>
            /\ triggers'[HANDLER] = 0
       /\ triggers'[HANDLER] # 0 =>
            /\ triggers'[HANDLER] = 1
            /\ event'.kind = "setup"
            /\ IsTransient(event'.message)
    ]_vars

\* A fresh start made after an earlier run had classified files: the ledger is
\* empty again and the invocation is at the head of the listing.
C25_Witness ==
  /\ pc = "loop"
  /\ files = 0
  /\ classified = DOMAIN folder
  /\ Len(folder) = NFiles
  /\ \A f \in FileIds : Ledger[f] = NULL
  /\ Cursor = NoToken
  /\ userProperties.processedCount = 0
  /\ Pending = 0


OtherHandlers == Handlers \ {HANDLER}

\* C28: no step of startFullIngestion or processPdfBatch changes the triggers
\* of a handler other than processPdfBatch: the recurring triggers that
\* runInitialSetup installed are all still there.
C28_OnlyOwnTriggers ==
  [][\A h \in OtherHandlers :
       triggers[h] = 1 /\ triggers'[h] = triggers[h]]_vars

\* A resumed invocation has completed: deleteContinuationTriggers has run in
\* the fresh start, at the safety stop and at completion, and the harvester's
\* and the cleanup's triggers are in place.
C28_Witness ==
  /\ pc = "idle"
  /\ StatusIs("Completed")
  /\ lastToken # NoToken
  /\ Pending = 0
  /\ \A h \in OtherHandlers : triggers[h] = 1


\* C27: no step of processPdfBatch removes a ledger entry, and a run of
\* cleanOldMessageIds removes no ledger entry and none of the keys
\* ingestionStatus, processedCount, lastRunTimestamp and continuationToken.
C27_LedgerNeverDeleted ==
  [][/\ \/ \A f \in FileIds :
               Ledger[f] # NULL => userProperties'.ledger[f] # NULL
        \/ startFullIngestion
     /\ event'.kind = "sweep" => userProperties' = userProperties
    ]_vars

\* The cleanup ran after an invocation of a run whose ledger holds the three
\* kinds of entry and whose cursor and count are stored.
C27_Witness ==
  /\ event.kind = "sweep"
  /\ pc = "idle"
  /\ StatusIs("Failed: ")
  /\ Cursor # NoToken
  /\ userProperties.processedCount = 1
  /\ userProperties.lastRunTimestamp
  /\ \E f, g, h \in FileIds :
       Ledger[f] = "true" /\ Ledger[g] = "failed_to_parse" /\ Ledger[h] = "timed_out"


RECURSIVE SumGrants(_, _)
SumGrants(g, seconds) ==
  IF seconds = {} THEN 0
  ELSE LET t == CHOOSE u \in seconds : TRUE
       IN g[t] + SumGrants(g, seconds \ {t})

\* The calls that returned true in the windowSeconds that end with second t.
GrantedWithin(g, t) ==
  SumGrants(g, {u \in Seconds : t - limit.windowSeconds < u /\ u <= t})

\* C30: in every window of windowSeconds (open at its start, closed at its
\* end) at most maxAttempts calls have returned true, and a call that returns
\* false leaves the cache entry as it was.
C30_RateLimitWindow ==
  [][/\ \A t \in Seconds : GrantedWithin(grants', t) <= limit.maxAttempts
     /\ allowed' = "false" => cache' = cache /\ grants' = grants
    ]_vars

\* A call was refused with the window full, after an earlier window had been
\* filled and had passed.
C30_Witness ==
  /\ allowed = "false"
  /\ Len(Filtered(CachedAttempts, Millis(currentTime),
                  limit.windowSeconds * 1000)) = limit.maxAttempts
  /\ limit.maxAttempts = MaxAttemptsArg
  /\ SumGrants(grants, Seconds) > limit.maxAttempts


\* C23: at most one invocation is inside processPdfBatch.
C23_NoOverlap == Cardinality({k \in Invocations : Active(k)}) <= 1


\* A safety stop, or an error of Drive in the setup or in the loop.
Interrupted ==
  \/ event'.kind \in {"setup", "loop"}
  \/ pc = "loop" /\ pc' = "idle" /\ StatusHead(userProperties') = "Waiting..."

Done == StatusIs("Completed") \/ StatusIs("Failed: ")

\* C26: when from some point on no invocation is interrupted, every run that
\* has been started reaches the status 'Completed' or 'Failed'.
C26_EventuallyCompletes ==
  (<>[][~Interrupted]_vars) => ((Status # <<>>) ~> Done)


\* ------------------------------------------------------ parent and children
\* C31: the 'metrics' insert of an item begins only when the 'reports' insert
\* of the same item has returned without an error; when the 'reports' insert
\* has thrown (fatal error or exhaustion), loadData returns and no insert
\* follows for that item.
C31_ParentBeforeChildren ==
  [][/\ (/\ pc' = "insert" /\ tableId' = "metrics"
         /\ ~(pc = "insert" /\ tableId = "metrics")) =>
          /\ pc = "loaded" /\ tableId = "reports" /\ thrown = NoError
          /\ Len(log) > 0 /\ log[Len(log)] = 0
          /\ file' = file
     /\ (pc = "loaded" /\ tableId = "reports" /\ thrown # NoError) =>
          pc' = "loop" /\ file' = NoFile]_vars

\* The 'metrics' insert of an item has begun and met a transient error.
C31_Witness ==
  /\ pc = "insert" /\ tableId = "metrics"
  /\ file \in FileIds
  /\ log = <<0, InitialDelay>>


\* ------------------------------------------------------ recurring triggers
\* C32: a setup function that completes without error leaves exactly one
\* trigger for each handler it installs and does not change the triggers of
\* the other handlers; so after any sequence of such calls every handler they
\* install has exactly one trigger.
C32_OneTriggerPerHandler ==
  [][LET installs ==
           [runInitialSetup |-> RecurringHandlers,
            setupDailyReportTrigger |-> {"runDailyReportTrigger"},
            setupWeeklyReportTrigger |-> {"runWeeklyReportTrigger"},
            setupAllReportTriggers |->
              {"runDailyReportTrigger", "runWeeklyReportTrigger"}]
     IN \A name \in DOMAIN installs :
          (/\ event'.kind = "installed"
           /\ event'.message = <<name>>
           /\ <<triggers, event>>' # <<triggers, event>>) =>
            \A h \in Handlers :
              triggers'[h] = IF h \in installs[name] THEN 1
                                                    ELSE triggers[h]]_vars

\* Every setup has run over duplicated triggers and each recurring handler
\* has one trigger.
C32_Witness ==
  /\ event = Event("installed", <<"runInitialSetup">>)
  /\ \A h \in Handlers \ {HANDLER} : triggers[h] = 1


\* ------------------------------------------------------------ backoff sleeps
RECURSIVE Slept(_)
\* The milliseconds slept in a log.
Slept(l) == IF l = <<>> THEN 0 ELSE Head(l) + Slept(Tail(l))

\* C33: when insertWithRetry is over, its last act was a write attempt and not
\* a sleep; an exhausted policy has slept maxRetries - 1 = 3 times, 1 s + 2 s
\* + 4 s in total.
C33_SleepsOnlyBetweenAttempts ==
  pc = "loaded" =>
    /\ log[Len(log)] = 0
    /\ thrown.message = ExhaustedMsg(tableId) =>
         /\ Cardinality({k \in DOMAIN log : log[k] # 0}) = maxRetries - 1
         /\ Slept(log) = 7 * InitialDelay


\* --------------------------------------------------------- count and ledger
\* C34: between invocations, once a fresh start has been made, the stored
\* processedCount is the number of ledger entries 'true'.
C34_CountIsSuccesses ==
  (pc = "idle" /\ Status # <<>>) =>
    ParseCount(userProperties.processedCount) =
      Cardinality({f \in FileIds : Ledger[f] = "true"})


\* ------------------------------------------------------ status and scheduler
\* C35: between invocations, the status 'Waiting...' comes with exactly one
\* processPdfBatch continuation pending and a stored cursor; and a pending
\* continuation comes with the status 'Waiting...' or the status of a
\* transient failure, never with 'Completed' or another 'Failed'.
C35_StatusAndSchedulerAgree ==
  pc = "idle" =>
    /\ StatusIs("Waiting...") => Pending = 1 /\ Cursor # NoToken
    /\ Pending > 0 =>
         \/ StatusIs("Waiting...")
         \/ StatusIs("Failed: ") /\ IsTransient(Status[2])


\* ------------------------------------------------------------ under overlap
\* C36: no file is in the hands of both invocations: while one invocation is
\* parsing and loading a file, the other is not parsing and loading it too.
C36_NoDoubleProcessing ==
  ~(/\ inv["manual"].pc = "item"
    /\ inv["scheduled"].pc = "item"
    /\ inv["manual"].file = inv["scheduled"].file)

\* C37: when both invocations have returned, at most one processPdfBatch
\* continuation is pending.
C37_SingleContinuationUnderOverlap ==
  (\A k \in Invocations : inv[k].pc = "idle") => triggers[HANDLER] <= 1


\* ------------------------------------------------------- the shared store
\* C38: a fresh start of the ingestion leaves every entry of the harvester's
\* message log as it was.
C38_FreshStartKeepsMessageLog ==
  [][processedLog' = processedLog \/ ~startFullIngestion]_vars


\* ------------------------------------------------------- files of other names
OtherName(f) == f \in DOMAIN folder /\ ~StartsWith(folder[f], "pmix-")

\* C39: the step that pulls a file whose name does not start with 'pmix-'
\* parses nothing, begins no insert, leaves the property store (ledger, count,
\* status) and the local count as they were and goes back to the loop; such a
\* file never has a ledger entry and is never the file being parsed or loaded.
C39_OtherNamesAreSkipped ==
  [][/\ (pc = "loop" /\ files' = files + 1 /\ OtherName(files + 1)) =>
          /\ parsed' = NoFile
          /\ pc' = "loop"
          /\ file' = NoFile
          /\ userProperties' = userProperties
          /\ processedCount' = processedCount
          /\ log' = <<>>
     /\ \A f \in FileIds :
          OtherName(f) => /\ userProperties'.ledger[f] = NULL
                          /\ parsed' # f
                          /\ file' # f
                          /\ f \notin classified'
    ]_vars

\* A folder with a file of another name before a 'pmix-' file: the run has
\* passed the first, loaded the second and completed.
C39_Witness ==
  /\ pc = "idle"
  /\ Len(folder) = 2
  /\ OtherName(1)
  /\ Ledger[1] = NULL
  /\ Ledger[2] = "true"
  /\ Status = <<"Completed", <<>>>>
  /\ userProperties.processedCount = 1

====
